---- MODULE Spec2Model ----
(***************************************************************************)
(* A model of the uAgents messaging core: the signed Envelope and its      *)
(* digest (Envelope.ts), the Dispenser queue and sendExchangeEnvelope      *)
(* (Communication.ts) with the Dispatcher registry it talks to, the        *)
(* EnvelopeHistory (Envelope.ts), weightedRandomSample and parseIdentifier *)
(* (Resolver.ts), and the Model with its constructor, buildSchemaDigest    *)
(* and pydanticStringify (model.ts).                                       *)
(*                                                                         *)
(* Strings are sequences of byte values.  An optional field `f?: T` is a   *)
(* sequence of length 0 (undefined) or 1 (<<v>>, the value v).             *)
(***************************************************************************)
EXTENDS Integers, Sequences, FiniteSets, TLC

VARIABLES
    \* ---- one Envelope object (Envelope.ts) ----
    env,            \* the envelope's fields
    op,             \* the last operation performed on it
    verifyResult,   \* outcome of the last verify() call
    sets,           \* number of field assignments made after construction
    \* ---- the Dispenser (Communication.ts) ----
    _envelopes,     \* Dispenser._envelopes
    resolved,       \* per response future: how many times it was resolved
    dispenserOp,    \* the last Dispenser operation that returned
    \* ---- the Dispatcher registry (Dispatch.ts) ----
    sinks,          \* the addresses a sink is registered for
    deliveries,     \* the dispatchMsg calls that reached a sink, in order
    \* ---- one sendExchangeEnvelope / dispatchLocalMessage call ----
    pc,             \* "idle", "loop" (loop head), "await" (POST in flight), "done"
    envelope,       \* argument: the outbound envelope
    endpoints,      \* argument: the endpoint list
    sync,           \* argument: the sync flag
    answers,        \* how the endpoint at each list position answers a POST
    i,              \* position of the loop in endpoints (1-based)
    errors,         \* the local errors array
    posts,          \* list positions POSTed to, in order of the requests
    inflight,       \* list positions whose POST has not been answered yet
    response,       \* the body of the last sync response parsed
    result,         \* what the call resolved with
    logged,         \* the errors written to the log by the call
    \* ---- one EnvelopeHistory and the clock (Envelope.ts) ----
    now,            \* Date.now(), in milliseconds
    ticks,          \* how many times the clock has advanced
    envelopes,      \* EnvelopeHistory.envelopes
    entry,          \* argument of the last addEntry call
    cutoffTime,     \* cutoffTime of the last applyRetentionPolicy call
    historyOp,      \* the last thing that happened to the history
    \* ---- one weightedRandomSample call (Resolver.ts) ----
    items,          \* argument: the list to sample from
    weights,        \* argument: undefined or the list of weights
    kArg,           \* argument k: the number of items to sample
    sampled,        \* the list returned
    \* ---- one parseIdentifier call (Resolver.ts) ----
    identifier,     \* argument: the identifier string
    parsed,         \* the tuple returned
    \* ---- one schema tree and the digests built for it (model.ts) ----
    schema,         \* the schema tree handed to pydanticStringify
    strings,        \* the canonical strings returned so far, in order
    digests,        \* the digests returned so far, in order
    schemaOp,       \* the last thing that happened to the schema tree
    \* ---- one Model (model.ts) ----
    input,          \* argument of the Model constructor
    model           \* the Model constructed: undefined or its field `schema`

envVars == <<env, op, verifyResult, sets>>
dispenserVars == <<_envelopes, resolved, dispenserOp>>
dispatcherVars == <<sinks, deliveries>>
callVars ==
    <<pc, envelope, endpoints, sync, answers, i, errors, posts, inflight,
      response, result, logged>>
historyVars == <<now, ticks, envelopes, entry, cutoffTime, historyOp>>
sampleVars == <<items, weights, kArg, sampled>>
parseVars == <<identifier, parsed>>
schemaVars == <<schema, strings, digests, schemaOp>>
modelVars == <<input, model>>
vars ==
    <<env, op, verifyResult, sets, _envelopes, resolved, dispenserOp, sinks,
      deliveries, pc, envelope, endpoints, sync, answers, i, errors, posts,
      inflight, response, result, logged, now, ticks, envelopes, entry,
      cutoffTime, historyOp, items, weights, kArg, sampled, identifier,
      parsed, schema, strings, digests, schemaOp, input, model>>

-----------------------------------------------------------------------------
(* Bounds of the model *)

\* field assignments made to one envelope after it was constructed
MaxSets == 1
\* envelopes queued in one Dispenser
MaxQueue == 2
\* length of an endpoint list
MaxEndpoints == 2

\* how many times the clock advances
MaxTicks == 3

\* entries the history holds when an entry is added
MaxHistory == 2

\* length of the list weightedRandomSample draws from
MaxItems == 3

\* length of an identifier, counted in tokens ("://", "/", one character)
MaxTokens == 6

\* nodes of a schema tree (strings, arrays and objects)
MaxNodes == 4

\* fields of a message type
MaxFields == 3

\* nodes of a JSON value with nulls
MaxJsonNodes == 3

\* buildSchemaDigest calls made on one schema tree
MaxCalls == 2

-----------------------------------------------------------------------------
(* Optional values *)

Nothing == <<>>
Some(v) == <<v>>
IsSet(o) == o # <<>>
Val(o) == o[1]

-----------------------------------------------------------------------------
(* Identity (crypto.ts): an ideal signature scheme.  A signature names the  *)
(* address of the key that made it and the digest it was made over.         *)

AgentA == <<1>>
AgentB == <<2>>
Addresses == {AgentA, AgentB}

\* an Identity is represented by its address
Identities == Addresses

signB64(identity, digest) ==
    [kind |-> "sig", signer |-> identity, digest |-> digest]

\* "true" / "false", or "throw" for a signature string that cannot be decoded
verifyDigest(address, digest, signature) ==
    IF signature.kind # "sig" THEN "throw"
    ELSE IF signature.signer = address /\ signature.digest = digest THEN "true"
    ELSE "false"

-----------------------------------------------------------------------------
(* Envelope (Envelope.ts) *)

\* sha256 as a collision-free function: the digest determines the bytes hashed
sha256(bytes) == <<"sha256", bytes>>

\* Buffer.alloc(8).writeBigUInt64BE(BigInt(n)), for 0 <= n < 2^31
writeBigUInt64BE(n) ==
    <<0, 0, 0, 0,
      (n \div 16777216) % 256, (n \div 65536) % 256, (n \div 256) % 256, n % 256>>

\* JavaScript truthiness of an optional string / an optional number
TruthyString(o) == IsSet(o) /\ Val(o) # <<>>
TruthyNumber(o) == IsSet(o) /\ Val(o) # 0

\* mutant of DigestBytes: the version and the protocol digest are hashed too
DigestBytes_withVersion(e) ==
    <<e.version>> \o e.sender \o e.target \o e.session \o e.schemaDigest
      \o (IF IsSet(e.protocolDigest) THEN Val(e.protocolDigest) ELSE <<>>)
      \o (IF TruthyString(e.payload) THEN Val(e.payload) ELSE <<>>)
      \o (IF TruthyNumber(e.expires) THEN writeBigUInt64BE(Val(e.expires)) ELSE <<>>)
      \o (IF IsSet(e.nonce) THEN writeBigUInt64BE(Val(e.nonce)) ELSE <<>>)

\* the bytes fed to the hasher by Envelope._digest, in the order of the updates
DigestBytes(e) ==
    e.sender \o e.target \o e.session \o e.schemaDigest
      \o (IF TruthyString(e.payload) THEN Val(e.payload) ELSE <<>>)
      \o (IF TruthyNumber(e.expires) THEN writeBigUInt64BE(Val(e.expires)) ELSE <<>>)
      \o (IF IsSet(e.nonce) THEN writeBigUInt64BE(Val(e.nonce)) ELSE <<>>)

_digest(e) == sha256(DigestBytes(e))

\* mutant of sign: the signed digest leaves the nonce out
sign_withoutNonce(e, identity) ==
    [e EXCEPT !.signature =
        Some(signB64(identity, _digest([e EXCEPT !.nonce = Nothing])))]

\* Envelope.sign: the envelope with its signature assigned
sign(e, identity) ==
    [e EXCEPT !.signature = Some(signB64(identity, _digest(e)))]

\* mutant of verify: a signature that does not verify is thrown as an error
verify_throwsOnMismatch(e) ==
    IF ~IsSet(e.signature) THEN "Error: Envelope signature is missing"
    ELSE IF verifyDigest(e.sender, _digest(e), Val(e.signature)) = "true" THEN "true"
    ELSE "Error: Envelope signature does not verify"

\* Envelope.verify: "true", "false", or the error thrown
verify(e) ==
    IF ~IsSet(e.signature) THEN "Error: Envelope signature is missing"
    ELSE verifyDigest(e.sender, _digest(e), Val(e.signature))

\* the values the model gives each field
Sessions == {<<3>>, <<3, 3>>}
SchemaDigests == {<<4>>, <<5>>}
Payloads == {Nothing, Some(<<>>), Some(<<7>>)}
ExpiresValues == {Nothing, Some(0), Some(1)}
NonceValues == {Nothing, Some(0), Some(1)}
Versions == {1, 2}
ProtocolDigests == {Nothing, Some(<<6>>)}

FieldNames ==
    {"version", "sender", "target", "session", "schemaDigest", "protocolDigest",
     "payload", "expires", "nonce"}

FieldValues(f) ==
    CASE f = "version" -> Versions
      [] f = "sender" -> Addresses
      [] f = "target" -> Addresses
      [] f = "session" -> Sessions
      [] f = "schemaDigest" -> SchemaDigests
      [] f = "protocolDigest" -> ProtocolDigests
      [] f = "payload" -> Payloads
      [] f = "expires" -> ExpiresValues
      [] f = "nonce" -> NonceValues

\* the constructor: every field from its argument
Envelope(version, sender, target, session, schemaDigest, protocolDigest, payload, expires, nonce, signature) ==
    [version |-> version, sender |-> sender, target |-> target,
     session |-> session, schemaDigest |-> schemaDigest,
     protocolDigest |-> protocolDigest, payload |-> payload,
     expires |-> expires, nonce |-> nonce, signature |-> signature]

NewEnvelopes ==
    {Envelope(1, s, t, ss, sd, Nothing, p, x, n, Nothing) :
        s \in Addresses, t \in Addresses, ss \in Sessions, sd \in SchemaDigests,
        p \in Payloads, x \in ExpiresValues, n \in NonceValues}

\* E.sign(identity)
Sign(identity) ==
    /\ env' = sign(env, identity)
    /\ op' = "sign"
    /\ verifyResult' = "none"
    /\ UNCHANGED sets

\* E.verify()
Verify ==
    /\ op # "verify"
    /\ verifyResult' = verify(env)
    /\ op' = "verify"
    /\ UNCHANGED <<env, sets>>

\* an assignment E.f = v to one public field of a signed envelope
SetField(f, v) ==
    /\ IsSet(env.signature)
    /\ sets < MaxSets
    /\ v # env[f]
    /\ env' = [env EXCEPT ![f] = v]
    /\ sets' = sets + 1
    /\ op' = "set"
    /\ verifyResult' = "none"

othersOfEnvelope ==
    <<dispenserVars, dispatcherVars, callVars, historyVars, sampleVars,
      parseVars, schemaVars, modelVars>>

NextEnvelope ==
    \/ \E identity \in Identities : Sign(identity) /\ UNCHANGED othersOfEnvelope
    \/ Verify /\ UNCHANGED othersOfEnvelope
    \/ \E f \in FieldNames : \E v \in FieldValues(f) :
          SetField(f, v) /\ UNCHANGED othersOfEnvelope

-----------------------------------------------------------------------------
(* Dispatcher (Dispatch.ts): the registry of local sinks *)

\* dispatcher.register(address, sink)
Register(address) ==
    /\ address \notin sinks
    /\ sinks' = sinks \cup {address}
    /\ UNCHANGED deliveries

\* dispatcher.unregister(address)
Unregister(address) ==
    /\ address \in sinks
    /\ sinks' = sinks \ {address}
    /\ UNCHANGED deliveries

\* whether dispatchMsg finds a sink for the destination
contains(destination) == destination \in sinks

\* the record of one dispatchMsg call handed to the destination's sink
SinkCall(sender, destination, schemaDigest, message, session) ==
    [sender |-> sender, destination |-> destination,
     schemaDigest |-> schemaDigest, message |-> message, session |-> session]

-----------------------------------------------------------------------------
(* Dispenser (Communication.ts) *)

Urls == {"http://a.local/submit", "http://b.local/submit"}

EndpointLists == UNION {[1..n -> Urls] : n \in 0..MaxEndpoints}

\* the outbound envelopes of the model: unsigned, and signed by their sender
OutboundEnvelopes ==
    LET unsigned ==
          {Envelope(1, AgentA, t, ss, <<4>>, Nothing, Some(<<7>>), Nothing,
                    Nothing, Nothing) : t \in Addresses, ss \in {<<3>>}}
    IN  unsigned \cup {sign(e, e.sender) : e \in unsigned}

\* Dispenser.addEnvelope(envelope, endpoints, responseFuture, sync); the future
\* is a fresh pending one, identified by its position in `resolved`
addEnvelope(e, eps, s) ==
    /\ Len(_envelopes) < MaxQueue
    /\ _envelopes' =
          Append(_envelopes,
                 [envelope |-> e, strings |-> eps,
                  future |-> Len(resolved) + 1, flag |-> s])
    /\ resolved' = Append(resolved, 0)
    /\ dispenserOp' = "addEnvelope"

\* Dispenser.run(): `while (true) { return }`
run ==
    /\ dispenserOp # "run"
    /\ dispenserOp' = "run"
    /\ UNCHANGED <<_envelopes, resolved>>

othersOfDispenser ==
    <<envVars, dispatcherVars, callVars, historyVars, sampleVars, parseVars,
      schemaVars, modelVars>>

NextDispenser ==
    \/ /\ Len(_envelopes) < MaxQueue
       /\ \E e \in OutboundEnvelopes, eps \in EndpointLists, s \in BOOLEAN :
             addEnvelope(e, eps, s)
       /\ UNCHANGED othersOfDispenser
    \/ run /\ UNCHANGED othersOfDispenser

-----------------------------------------------------------------------------
(* dispatchLocalMessage and sendExchangeEnvelope (Communication.ts) *)

DELIVERED == "delivered"
FAILED == "failed"

\* a message text is the sequence of its fragments: the literal parts of the
\* template and the values interpolated into it
MsgStatus(status, detail, destination, endpoint, session) ==
    [type |-> "MsgStatus", status |-> status, detail |-> detail,
     destination |-> destination, endpoint |-> endpoint, session |-> session]

\* base64 decoding of a payload, left uninterpreted
base64Decode(payload) == <<"base64-decoded", payload>>

\* Envelope.decodePayload
decodePayload(e) ==
    IF ~TruthyString(e.payload) THEN <<>> ELSE base64Decode(Val(e.payload))

\* the status dispatchLocalMessage returns
LocalStatus(destination, sessionId) ==
    MsgStatus(DELIVERED, <<"Message dispatched locally">>, destination, "",
              sessionId)

\* mutant of HttpStatus: the endpoint is left empty
HttpStatus_noEndpoint(e, endpoint) ==
    MsgStatus(DELIVERED, <<"Message successfully delivered via HTTP">>,
              e.target, "", e.session)

\* the status returned for a non-sync POST that was answered with success
HttpStatus(e, endpoint) ==
    MsgStatus(DELIVERED, <<"Message successfully delivered via HTTP">>,
              e.target, endpoint, e.session)

\* mutant of FailedStatus: the detail is the first error alone
FailedStatus_firstError(e) ==
    MsgStatus(FAILED, IF errors = <<>> THEN <<>> ELSE <<errors[1]>>, e.target, "",
              e.session)

\* mutant of FailedStatus: the status does not say which session failed
FailedStatus_noSession(e) ==
    MsgStatus(FAILED, <<"Message delivery failed">>, e.target, "", <<>>)

\* the status returned once the loop has run out of endpoints
FailedStatus(e) ==
    MsgStatus(FAILED, <<"Message delivery failed">>, e.target, "", e.session)

\* the status dispatchSyncResponseEnvelope returns after dispatching
SyncStatus(r) ==
    MsgStatus(DELIVERED, <<"Sync message successfully delivered via HTTP">>,
              r.target, "", r.session)

\* how an endpoint answers: the fetch rejects, or it resolves with a response
\* whose `ok` is false or true
AnswerKinds == {"reject", "not ok", "ok"}

\* the bodies a sync response may carry: envelopes that are unsigned, signed by
\* their sender, signed by another key, or carrying an undecodable signature
ResponseEnvelopes ==
    LET unsigned ==
          {Envelope(1, AgentB, t, <<3>>, <<4>>, Nothing, Some(<<7>>), Nothing,
                    Nothing, Nothing) : t \in Addresses}
    IN  unsigned
          \cup {sign(e, e.sender) : e \in unsigned}
          \cup {sign(e, AgentA) : e \in unsigned}
          \cup {[e EXCEPT !.signature =
                    Some([kind |-> "garbage", signer |-> <<>>, digest |-> <<>>])] :
                  e \in unsigned}

\* dispatchLocalMessage(sender, destination, schemaDigest, message, sessionId):
\* dispatchMsg reaches the sink, or fails for want of one
DispatchLocalMessage(sender, destination, schemaDigest, message, sessionId) ==
    /\ pc = "idle"
    /\ pc' = "done"
    /\ IF contains(destination)
         THEN /\ deliveries' =
                    Append(deliveries,
                           SinkCall(sender, destination, schemaDigest, message,
                                    sessionId))
              /\ result' = Some(LocalStatus(destination, sessionId))
         ELSE /\ result' = Some([type |-> "Error", name |-> "NoSinkError"])
              /\ UNCHANGED deliveries
    /\ UNCHANGED <<sinks, envelope, endpoints, sync, answers, i, errors, posts,
                   inflight, response, logged>>

\* sendExchangeEnvelope(envelope, endpoints, sync) is called
SendExchangeEnvelope(e, eps, s, ans) ==
    /\ pc = "idle"
    /\ Len(ans) = Len(eps)
    /\ pc' = "loop"
    /\ envelope' = e
    /\ endpoints' = eps
    /\ sync' = s
    /\ answers' = ans
    /\ i' = 1
    /\ errors' = <<>>
    /\ UNCHANGED <<dispatcherVars, posts, inflight, response, result, logged>>

\* mutant of NextPosition: the failed endpoint is tried again
NextPosition_same(k) == k

\* the position the loop moves to after the attempt at position k

NextPosition(k) == k + 1

\* loop head with an endpoint left: `await fetch(endpoint, {method: "POST", ...})`
Post ==
    /\ pc = "loop"
    /\ i <= Len(endpoints)
    /\ posts' = Append(posts, i)
    /\ inflight' = inflight \cup {i}
    /\ pc' = "await"
    /\ response' = Nothing
    /\ UNCHANGED <<dispatcherVars, envelope, endpoints, sync, answers, i, errors,
                   result, logged>>

\* mutant of Continue: the error leaves the call instead of being recorded
Continue_rethrow(error) ==
    /\ errors' = errors \o error
    /\ inflight' = inflight \ {i}
    /\ i' = i
    /\ pc' = "thrown"
    /\ UNCHANGED <<envelope, endpoints, sync, answers, posts, result, logged>>

\* the attempt at position i ends and the loop goes on, `error` (if any) recorded
Continue(error) ==
    /\ errors' = errors \o error
    /\ inflight' = inflight \ {i}
    /\ i' = NextPosition(i)
    /\ pc' = "loop"
    /\ UNCHANGED <<envelope, endpoints, sync, answers, posts, result, logged>>

\* the call returns `value` from inside the loop
Return(value) ==
    /\ result' = Some(value)
    /\ inflight' = inflight \ {i}
    /\ pc' = "done"
    /\ UNCHANGED <<envelope, endpoints, sync, answers, i, errors, posts, logged>>

\* fetch rejects: the outer catch records the error
FetchRejects ==
    /\ pc = "await"
    /\ answers[i] = "reject"
    /\ Continue(<<"Failed to send message">>)
    /\ UNCHANGED <<dispatcherVars, response>>

\* response.ok is false: the body text is recorded, or the error of reading it
NotOk(textRead) ==
    /\ pc = "await"
    /\ answers[i] = "not ok"
    /\ Continue(IF textRead THEN <<"response text">>
                ELSE <<"Failed to send message">>)
    /\ UNCHANGED <<dispatcherVars, response>>

\* response.ok and not sync
OkNotSync ==
    /\ pc = "await"
    /\ answers[i] = "ok"
    /\ ~sync
    /\ Return(HttpStatus(envelope, endpoints[i]))
    /\ UNCHANGED <<dispatcherVars, response>>

\* response.ok, sync, and the body is no envelope: response.json() or
\* Envelope.modelValidate throws inside the try, and the outer catch records it
OkSyncUnparsable ==
    /\ pc = "await"
    /\ answers[i] = "ok"
    /\ sync
    /\ Continue(<<"Failed to send message">>)
    /\ UNCHANGED <<dispatcherVars, response>>

\* mutant of Accepted: the result of verify() is ignored
Accepted_unchecked(r) == TRUE

\* mutant of Accepted: a response is dispatched when it carries a signature
Accepted_whenSigned(r) == IsSet(r.signature)

\* lines 95-105: whether the parsed response goes on to be dispatched
Accepted(r) == IsSet(r.signature) => verify(r) = "true"

\* response.ok, sync, the body parses to r, r is signed and not verified
OkSyncUnverified(r) ==
    /\ pc = "await"
    /\ answers[i] = "ok"
    /\ sync
    /\ ~Accepted(r)
    /\ response' = Some(r)
    /\ Continue(IF verify(r) \notin {"true", "false"}
                THEN <<"Received response envelope that failed verification">>
                ELSE <<>>)
    /\ UNCHANGED dispatcherVars

\* mutant of PassThrough: the response comes back with its payload dropped
PassThrough_withoutPayload(r) == [type |-> "Envelope", env |-> [r EXCEPT !.payload = Nothing]]

\* `return env` (line 135): the response Envelope itself is the result
PassThrough(r) == [type |-> "Envelope", env |-> r]

\* r accepted, dispatchSyncResponseEnvelope finds no sink registered at all
OkSyncNoSinks(r) ==
    /\ pc = "await"
    /\ answers[i] = "ok"
    /\ sync
    /\ Accepted(r)
    /\ sinks = {}
    /\ response' = Some(r)
    /\ Return(PassThrough(r))
    /\ UNCHANGED dispatcherVars

\* r accepted, sinks registered: dispatchMsg reaches r.target's sink, which
\* returns (the status is returned) or throws (the outer catch records it)
OkSyncDispatched(r, sinkThrows) ==
    /\ pc = "await"
    /\ answers[i] = "ok"
    /\ sync
    /\ Accepted(r)
    /\ sinks # {}
    /\ contains(r.target)
    /\ response' = Some(r)
    /\ deliveries' =
          Append(deliveries,
                 SinkCall(r.sender, r.target, r.schemaDigest, decodePayload(r),
                          r.session))
    /\ IF sinkThrows THEN Continue(<<"Failed to send message">>)
       ELSE Return(SyncStatus(r))
    /\ UNCHANGED sinks

\* r accepted, sinks registered but none for r.target: dispatchMsg throws
OkSyncNoSink(r) ==
    /\ pc = "await"
    /\ answers[i] = "ok"
    /\ sync
    /\ Accepted(r)
    /\ sinks # {}
    /\ ~contains(r.target)
    /\ response' = Some(r)
    /\ Continue(<<"Failed to send message">>)
    /\ UNCHANGED dispatcherVars

\* the loop has run out of endpoints: log the errors, return FAILED
Exhausted ==
    /\ pc = "loop"
    /\ i > Len(endpoints)
    /\ logged' = Some(errors)
    /\ result' = Some(FailedStatus(envelope))
    /\ pc' = "done"
    /\ UNCHANGED <<dispatcherVars, envelope, endpoints, sync, answers, i, errors,
                   posts, inflight, response>>

othersOfSend ==
    <<envVars, dispenserVars, historyVars, sampleVars, parseVars, schemaVars,
      modelVars>>

NextSend ==
    \/ \E a \in Addresses : Register(a) /\ UNCHANGED <<othersOfSend, callVars>>
    \/ \E a \in Addresses : Unregister(a) /\ UNCHANGED <<othersOfSend, callVars>>
    \/ /\ pc = "idle"
       /\ \E e \in OutboundEnvelopes :
             DispatchLocalMessage(e.sender, e.target, e.schemaDigest,
                                  decodePayload(e), e.session)
       /\ UNCHANGED othersOfSend
    \/ /\ pc = "idle"
       /\ \E e \in OutboundEnvelopes, eps \in EndpointLists, s \in BOOLEAN :
             \E ans \in [1..Len(eps) -> AnswerKinds] :
                SendExchangeEnvelope(e, eps, s, ans)
       /\ UNCHANGED othersOfSend
    \/ Post /\ UNCHANGED othersOfSend
    \/ FetchRejects /\ UNCHANGED othersOfSend
    \/ \E textRead \in BOOLEAN : NotOk(textRead) /\ UNCHANGED othersOfSend
    \/ OkNotSync /\ UNCHANGED othersOfSend
    \/ OkSyncUnparsable /\ UNCHANGED othersOfSend
    \/ /\ pc = "await" /\ sync
       /\ \E r \in ResponseEnvelopes : OkSyncUnverified(r)
       /\ UNCHANGED othersOfSend
    \/ /\ pc = "await" /\ sync
       /\ \E r \in ResponseEnvelopes : OkSyncNoSinks(r)
       /\ UNCHANGED othersOfSend
    \/ /\ pc = "await" /\ sync
       /\ \E r \in ResponseEnvelopes, sinkThrows \in BOOLEAN :
             OkSyncDispatched(r, sinkThrows)
       /\ UNCHANGED othersOfSend
    \/ /\ pc = "await" /\ sync
       /\ \E r \in ResponseEnvelopes : OkSyncNoSink(r)
       /\ UNCHANGED othersOfSend
    \/ Exhausted /\ UNCHANGED othersOfSend

-----------------------------------------------------------------------------
(* EnvelopeHistory (Envelope.ts): entries kept for 24 hours *)

\* the retention period of applyRetentionPolicy, in seconds
RetentionSeconds == 86400

\* the clock advances by half a second or by a whole retention period
TickSizes == {500, RetentionSeconds * 1000}

\* Math.floor(Date.now() / 1000) at clock value t
Seconds(t) == t \div 1000

\* `Math.floor(Date.now() / 1000) - 86400`
CutoffTime(t) == Seconds(t) - RetentionSeconds

\* new EnvelopeHistoryEntry({timestamp, ...}) made when the clock shows t: the
\* timestamp defaults to the current second, or is given by the caller
NewEntries(t) ==
    {[timestamp |-> ts] :
        ts \in {Seconds(t), CutoffTime(t) - 1, CutoffTime(t), CutoffTime(t) + 1}}

\* mutant of Retained: an entry exactly at the cutoff is dropped
Retained_strict(e, cutoff) == e.timestamp > cutoff

\* the filter predicate `e.timestamp >= cutoffTime`
Retained(e, cutoff) == e.timestamp >= cutoff

\* mutant of applyRetentionPolicy: nothing is filtered out
applyRetentionPolicy_keepAll(list, t) == list

\* applyRetentionPolicy() on the list, the clock showing t
applyRetentionPolicy(list, t) ==
    SelectSeq(list, LAMBDA e : Retained(e, CutoffTime(t)))

\* addEntry(entry): push, then applyRetentionPolicy()
addEntry(e) ==
    /\ envelopes' = applyRetentionPolicy(Append(envelopes, e), now)
    /\ entry' = Some(e)
    /\ cutoffTime' = Some(CutoffTime(now))
    /\ historyOp' = "addEntry"
    /\ UNCHANGED <<now, ticks>>

\* the clock advances by d milliseconds
Tick(d) ==
    /\ ticks < MaxTicks
    /\ now' = now + d
    /\ ticks' = ticks + 1
    /\ historyOp' = "tick"
    /\ UNCHANGED <<envelopes, entry, cutoffTime>>

\* GET /messages: the history is handed out as it is
ReadMessages ==
    /\ historyOp # "read"
    /\ historyOp' = "read"
    /\ UNCHANGED <<now, ticks, envelopes, entry, cutoffTime>>

othersOfHistory ==
    <<envVars, dispenserVars, dispatcherVars, callVars, sampleVars,
      parseVars, schemaVars, modelVars>>

NextHistory ==
    \/ /\ Len(envelopes) < MaxHistory
       /\ \E e \in NewEntries(now) : addEntry(e)
       /\ UNCHANGED othersOfHistory
    \/ \E d \in TickSizes : Tick(d) /\ UNCHANGED othersOfHistory
    \/ ReadMessages /\ UNCHANGED othersOfHistory

-----------------------------------------------------------------------------
(* Resolver (Resolver.ts): weightedRandomSample *)

\* the values an item can have
ItemValues == {"a", "b"}

\* items: any list of at most MaxItems items, equal items included
ItemLists == UNION {[1..n -> ItemValues] : n \in 0..MaxItems}

\* a weight is 0 or positive
WeightValues == {0, 1}

\* weights: undefined, or a list of weights of any length up to MaxItems
WeightArguments ==
    {Nothing} \cup {Some(w) : w \in UNION {[1..n -> WeightValues] : n \in 0..MaxItems}}

\* k: a number of items, also more than there are
SampleSizes == 0..(MaxItems + 1)

\* the orderings of the positions 1..n
Orderings(n) ==
    {f \in [1..n -> 1..n] : \A a, b \in 1..n : f[a] = f[b] => a = b}

\* the values Math.pow(Math.random(), 1 / w) can take, as ranks: 0 for the
\* weight 0 (the exponent is Infinity), any rank otherwise
Ranks(w) == IF w = 0 THEN {0} ELSE 0..2

\* the lists `values` that `weights.map(w => Math.pow(Math.random(), 1 / w))`
\* can produce
RandomValues(w) ==
    {v \in [1..Len(w) -> 0..2] : \A j \in 1..Len(w) : v[j] \in Ranks(w[j])}

\* `.sort((a, b) => b.value - a.value)` over the (value, index) pairs: the
\* positions by descending value, equal values in their original order
sortDescending(values) ==
    CHOOSE order \in Orderings(Len(values)) :
        \A a, b \in 1..Len(values) :
            a < b => \/ values[order[a]] > values[order[b]]
                     \/ values[order[a]] = values[order[b]] /\ order[a] < order[b]

\* mutant of slice: the element at position `to` is taken as well
slice_inclusive(list, from, to) ==
    SubSeq(list, from + 1, IF to + 1 < Len(list) THEN to + 1 ELSE Len(list))

\* Array.prototype.slice(from, to) for 0 <= from <= to
slice(list, from, to) ==
    SubSeq(list, from + 1, IF to < Len(list) THEN to ELSE Len(list))

\* items[index] for a 1-based position: undefined beyond the end of the list
At(list, index) == IF index \in 1..Len(list) THEN list[index] ELSE "undefined"

\* the !weights branch: `[...items].sort(() => Math.random() - 0.5)` leaves
\* the items in the order `shuffle`, of which the first k are returned
uniformSample(list, size, shuffle) ==
    slice([j \in 1..Len(list) |-> list[shuffle[j]]], 0, size)

\* the weighted branch: the positions of the size largest values, mapped to items
weightedSample(list, values, size) ==
    LET order == slice(sortDescending(values), 0, size)
    IN  [j \in 1..Len(order) |-> At(list, order[j])]

\* weightedRandomSample(items, weights, k) with no weights
SampleUniformly(shuffle) ==
    /\ ~IsSet(sampled)
    /\ ~IsSet(weights)
    /\ sampled' = Some(uniformSample(items, kArg, shuffle))
    /\ UNCHANGED <<items, weights, kArg>>

\* weightedRandomSample(items, weights, k) with weights
SampleByWeight(values) ==
    /\ ~IsSet(sampled)
    /\ IsSet(weights)
    /\ sampled' = Some(weightedSample(items, values, kArg))
    /\ UNCHANGED <<items, weights, kArg>>

othersOfSample ==
    <<envVars, dispenserVars, dispatcherVars, callVars, historyVars,
      parseVars, schemaVars, modelVars>>

NextSample ==
    \/ /\ ~IsSet(weights)
       /\ \E shuffle \in Orderings(Len(items)) : SampleUniformly(shuffle)
       /\ UNCHANGED othersOfSample
    \/ /\ IsSet(weights)
       /\ \E values \in RandomValues(Val(weights)) : SampleByWeight(values)
       /\ UNCHANGED othersOfSample

-----------------------------------------------------------------------------
(* Resolver (Resolver.ts): parseIdentifier *)

\* "://" and "/" as character sequences
SchemeSeparator == <<":", "/", "/">>
NameSeparator == <<"/">>

\* Config and crypto, scaled down: agent addresses are the strings of
\* AGENT_ADDRESS_LENGTH characters that start with AGENT_PREFIX, user
\* addresses the strings that start with USER_PREFIX
AGENT_ADDRESS_LENGTH == 2

AGENT_PREFIX == <<"g">>

USER_PREFIX == <<"u">>

\* the pieces identifiers are put together from
Tokens == {SchemeSeparator, NameSeparator, <<"g">>, <<"u">>}

\* the text made of the tokens in order
RECURSIVE Flatten(_)
Flatten(tokens) ==
    IF tokens = <<>> THEN <<>> ELSE Head(tokens) \o Flatten(Tail(tokens))

\* every identifier of at most MaxTokens tokens
Identifiers ==
    {Flatten(t) : t \in UNION {[1..n -> Tokens] : n \in 0..MaxTokens}}

\* the positions at which sep occurs in str
Occurrences(str, sep) ==
    {p \in 1..(Len(str) - Len(sep) + 1) : SubSeq(str, p, p + Len(sep) - 1) = sep}

\* String.prototype.includes
includes(str, sep) == Occurrences(str, sep) # {}

\* String.prototype.startsWith
startsWith(str, start) ==
    Len(str) >= Len(start) /\ SubSeq(str, 1, Len(start)) = start

\* the first position at which sep occurs in str
IndexOf(str, sep) ==
    CHOOSE p \in Occurrences(str, sep) : \A q \in Occurrences(str, sep) : p <= q

\* str cut at every occurrence of sep, from left to right
RECURSIVE Pieces(_, _)
Pieces(str, sep) ==
    IF ~includes(str, sep) THEN <<str>>
    ELSE <<SubSeq(str, 1, IndexOf(str, sep) - 1)>>
           \o Pieces(SubSeq(str, IndexOf(str, sep) + Len(sep), Len(str)), sep)

\* String.prototype.split(sep, limit): the first `limit` pieces, the rest of
\* the string being dropped
split(str, sep, limit) == slice(Pieces(str, sep), 0, limit)

\* isUserAddress (crypto)
isUserAddress(address) == startsWith(address, USER_PREFIX)

\* isValidAddress(address)
isValidAddress(address) ==
    \/ isUserAddress(address)
    \/ Len(address) = AGENT_ADDRESS_LENGTH /\ startsWith(address, AGENT_PREFIX)

\* mutant of classify: a remainder that is no address is dropped, the name
\* split off before it is kept
classify_keepName(name, remainder) ==
    IF isValidAddress(remainder) THEN <<name, remainder>> ELSE <<name, <<>>>>

\* lines 99-103: (name, address) from the name split off and the remainder
classify(name, remainder) ==
    IF isValidAddress(remainder) THEN <<name, remainder>> ELSE <<remainder, <<>>>>

\* the destructuring `[a, b] = parts`: a missing element is undefined
Element(parts, n) == IF n <= Len(parts) THEN Some(parts[n]) ELSE Nothing

\* parseIdentifier(identifier): [prefix, name, address], or a TypeError when a
\* string method is called on undefined
parseIdentifierOf(str) ==
    LET hasPrefix == includes(str, SchemeSeparator)
        byScheme == split(str, SchemeSeparator, 2)
        prefix == IF hasPrefix THEN Element(byScheme, 1) ELSE Some(<<>>)
        afterPrefix == IF hasPrefix THEN Element(byScheme, 2) ELSE Some(str)
    IN  IF ~IsSet(afterPrefix) THEN <<"TypeError">>
        ELSE LET hasName == includes(Val(afterPrefix), NameSeparator)
                 byName == split(Val(afterPrefix), NameSeparator, 2)
                 name == IF hasName THEN Element(byName, 1) ELSE Some(<<>>)
                 remainder == IF hasName THEN Element(byName, 2) ELSE afterPrefix
             IN  IF ~IsSet(remainder) THEN <<"TypeError">>
                 ELSE <<Val(prefix)>> \o classify(Val(name), Val(remainder))

\* parseIdentifier(identifier) is called
ParseIdentifier ==
    /\ ~IsSet(parsed)
    /\ parsed' = Some(parseIdentifierOf(identifier))
    /\ UNCHANGED identifier

othersOfParse ==
    <<envVars, dispenserVars, dispatcherVars, callVars, historyVars,
      sampleVars, schemaVars, modelVars>>

NextParse == ParseIdentifier /\ UNCHANGED othersOfParse

-----------------------------------------------------------------------------
(* Model (model.ts): pydanticStringify and buildSchemaDigest *)

\* A JSON value is a node: a string, null, an array (kids in order) or an
\* object (keys in insertion order, kids[j] the value of keys[j]).  Texts,
\* keys included, are sequences of characters.
Str(text) == [t |-> "str", s |-> text, keys |-> <<>>, kids |-> <<>>]
Null == [t |-> "null", s |-> <<>>, keys |-> <<>>, kids |-> <<>>]
Arr(elements) == [t |-> "arr", s |-> <<>>, keys |-> <<>>, kids |-> elements]
Obj(names, values) == [t |-> "obj", s |-> <<>>, keys |-> names, kids |-> values]

\* the keys "type", "title" and the snake_case key "a_b"
KeyType == <<"t", "y", "p", "e">>
KeyTitle == <<"t", "i", "t", "l", "e">>
KeySnake == <<"a", "_", "b">>
Keys == {KeyType, KeyTitle, KeySnake}

\* the lists of n different keys
KeyListsOf(n) ==
    {ks \in [1..n -> Keys] : \A a, b \in 1..n : ks[a] = ks[b] => a = b}

RECURSIVE TreesOf(_)
RECURSIVE ForestsOf(_)

\* the lists of values that have m nodes in all
ForestsOf(m) ==
    IF m = 0 THEN {<<>>}
    ELSE UNION {{<<tree>> \o rest : tree \in TreesOf(a), rest \in ForestsOf(m - a)} :
                   a \in 1..m}

\* the values of n nodes: the string "s", the arrays of any values and the
\* objects with any keys, in any order, and any values
TreesOf(n) ==
    (IF n = 1 THEN {Str(<<"s">>)} ELSE {})
      \cup {Arr(elements) : elements \in ForestsOf(n - 1)}
      \cup UNION {{Obj(ks, values) : ks \in KeyListsOf(Len(values))} :
                     values \in ForestsOf(n - 1)}

\* the schema trees pydanticStringify is called with: all of at most n nodes
SchemasUpTo(n) == UNION {TreesOf(m) : m \in 1..n}

\* the letters, in the order of their code units
LowerCase ==
    <<"a", "b", "c", "d", "e", "f", "g", "h", "i", "j", "k", "l", "m",
      "n", "o", "p", "q", "r", "s", "t", "u", "v", "w", "x", "y", "z">>
UpperCase ==
    <<"A", "B", "C", "D", "E", "F", "G", "H", "I", "J", "K", "L", "M",
      "N", "O", "P", "Q", "R", "S", "T", "U", "V", "W", "X", "Y", "Z">>

\* the code units of the characters of the model: space, underscore and
\* the letters
CodeUnits ==
    [c \in {" ", "_"} |-> IF c = " " THEN 32 ELSE 95]
      @@ [c \in {UpperCase[n] : n \in 1..26} |-> 64 + CHOOSE n \in 1..26 : UpperCase[n] = c]
      @@ [c \in {LowerCase[n] : n \in 1..26} |-> 96 + CHOOSE n \in 1..26 : LowerCase[n] = c]

\* the UTF-16 code unit of a character
CharCode(c) == CodeUnits[c]

\* the upper case letter of each lower case letter
UpperCaseOf ==
    [c \in {LowerCase[n] : n \in 1..26} |-> UpperCase[CHOOSE n \in 1..26 : LowerCase[n] = c]]

\* String.prototype.toUpperCase on one character
toUpperCase(c) == IF c \in DOMAIN UpperCaseOf THEN UpperCaseOf[c] ELSE c

\* a < b in the order of Array.prototype.sort(): by code units, a proper
\* prefix first
Before(a, b) ==
    \E p \in 1..(Len(b)) :
        /\ p <= Len(a) + 1
        /\ SubSeq(a, 1, p - 1) = SubSeq(b, 1, p - 1)
        /\ p <= Len(a) => CharCode(a[p]) < CharCode(b[p])

\* mutant of sortedKeys: the keys are left in insertion order
sortedKeys_asGiven(names) == names

\* `Object.keys(obj).sort()`
sortedKeys(names) ==
    LET order == CHOOSE f \in Orderings(Len(names)) :
                     \A a, b \in 1..Len(names) :
                         a < b => Before(names[f[a]], names[f[b]])
    IN  [j \in 1..Len(names) |-> names[order[j]]]

\* Array.prototype.join
RECURSIVE join(_, _)
join(texts, sep) ==
    IF texts = <<>> THEN <<>>
    ELSE IF Len(texts) = 1 THEN texts[1]
    ELSE texts[1] \o sep \o join(Tail(texts), sep)

\* `word.charAt(0).toUpperCase() + word.slice(1)`
capitalize(word) ==
    IF word = <<>> THEN <<>> ELSE <<toUpperCase(word[1])>> \o Tail(word)

\* mutant of titleOf: the words are joined as they are, not capitalized
titleOf_asWritten(key) == join(Pieces(key, <<"_">>), <<" ">>)

\* the default title of the value at `key`: the snake_case words of the key,
\* each with its first letter in upper case, joined by spaces
titleOf(key) ==
    LET words == Pieces(key, <<"_">>)
    IN  join([j \in 1..Len(words) |-> capitalize(words[j])], <<" ">>)

\* JSON.stringify of a string, null, an empty array or an empty object
jsonStringify(node) ==
    CASE node.t = "str" -> <<"\"">> \o node.s \o <<"\"">>
      [] node.t = "null" -> <<"n", "u", "l", "l">>
      [] node.t = "arr" -> <<"[", "]">>
      [] node.t = "obj" -> <<"{", "}">>

\* where `key` stands in the key list of the object
Position(node, key) == CHOOSE j \in 1..Len(node.keys) : node.keys[j] = key

\* `valueKeys.includes(key)`: Object.keys of a string or an array holds
\* indices only
hasKey(value, key) ==
    value.t = "obj" /\ \E j \in 1..Len(value.keys) : value.keys[j] = key

\* mutant of addTitle: the title is set anew on every call, the generated
\* title put before the one already there
addTitle_again(key, value) ==
    IF ~hasKey(value, KeyType) THEN value
    ELSE IF ~hasKey(value, KeyTitle)
         THEN [value EXCEPT !.keys = Append(@, KeyTitle),
                            !.kids = Append(@, Str(titleOf(key)))]
         ELSE [value EXCEPT !.kids[Position(value, KeyTitle)] =
                                Str(titleOf(key) \o @.s)]

\* lines 106-114: `value.title = ...` when value has "type" and no "title";
\* the assignment adds the key to the value object itself
addTitle(key, value) ==
    IF hasKey(value, KeyType) /\ ~hasKey(value, KeyTitle)
    THEN [value EXCEPT !.keys = Append(@, KeyTitle),
                       !.kids = Append(@, Str(titleOf(key)))]
    ELSE value

\* `value.length === 1`: an array of one element or a string of one character
hasLengthOne(value) ==
    \/ value.t = "arr" /\ Len(value.kids) = 1
    \/ value.t = "str" /\ Len(value.s) = 1

\* the outcome of a pydanticStringify call: the text returned (ok) or a
\* TypeError thrown (~ok), and the node as the call leaves it
Returned(text, node) == [ok |-> TRUE, str |-> text, obj |-> node]
Thrown(node) == [ok |-> FALSE, str |-> <<"TypeError">>, obj |-> node]

RECURSIVE pydanticStringifyOf(_)
RECURSIVE mapElements(_, _, _)
RECURSIVE mapKeys(_, _, _)

\* `obj.map(pydanticStringify)` from element j on, `done` the texts so far
mapElements(node, j, done) ==
    IF j > Len(node.kids) THEN Returned(<<"[">> \o join(done, <<",", " ">>) \o <<"]">>, node)
    ELSE LET r == pydanticStringifyOf(node.kids[j])
             after == [node EXCEPT !.kids[j] = r.obj]
         IN  IF r.ok THEN mapElements(after, j + 1, Append(done, r.str))
             ELSE Thrown(after)

\* `sortedKeys.map((key) => ...)` over the keys `todo`, `done` the texts so far
mapKeys(node, todo, done) ==
    IF todo = <<>> THEN Returned(<<"{">> \o join(done, <<",", " ">>) \o <<"}">>, node)
    ELSE LET key == Head(todo)
             j == Position(node, key)
         IN  IF node.kids[j].t = "null" THEN Thrown(node)
             ELSE LET value == addTitle(key, node.kids[j])
                      unwrap == key = KeyType /\ hasLengthOne(value)
                      r == IF unwrap /\ value.t = "arr"
                           THEN pydanticStringifyOf(value.kids[1])
                           ELSE pydanticStringifyOf(value)
                      after == IF unwrap /\ value.t = "arr"
                               THEN [value EXCEPT !.kids[1] = r.obj]
                               ELSE r.obj
                      text == <<"\"">> \o key \o <<"\"", ":", " ">> \o r.str
                      left == [node EXCEPT !.kids[j] = after]
                  IN  IF r.ok THEN mapKeys(left, Tail(todo), Append(done, text))
                      ELSE Thrown(left)

\* pydanticStringify(obj)
pydanticStringifyOf(node) ==
    IF node.t \in {"null", "str"} \/ Len(node.kids) = 0
    THEN Returned(jsonStringify(node), node)
    ELSE IF node.t = "arr" THEN mapElements(node, 1, <<>>)
    ELSE mapKeys(node, sortedKeys(node.keys), <<>>)

\* `model:${digest}`: the sha256 of the canonical string
modelDigest(text) == <<"model:", sha256(text)>>

\* the node at the end of a path of child positions
RECURSIVE NodeAt(_, _)
NodeAt(node, path) ==
    IF path = <<>> THEN node ELSE NodeAt(node.kids[Head(path)], Tail(path))

\* the paths to all nodes of a tree
RECURSIVE Paths(_)
Paths(node) ==
    {<<>>} \cup UNION {{<<j>> \o path : path \in Paths(node.kids[j])} :
                          j \in 1..Len(node.kids)}

\* the tree with the node at the end of the path replaced
RECURSIVE ReplaceAt(_, _, _)
ReplaceAt(node, path, new) ==
    IF path = <<>> THEN new
    ELSE [node EXCEPT !.kids[Head(path)] = ReplaceAt(@, Tail(path), new)]

\* list with the neighbours at j and j + 1 exchanged
Exchanged(list, j) == [list EXCEPT ![j] = list[j + 1], ![j + 1] = list[j]]

\* the tree with null in the place of the nodes at the ends of the paths
RECURSIVE WithNulls(_, _)
WithNulls(tree, paths) ==
    IF paths = {} THEN tree
    ELSE LET path == CHOOSE q \in paths : TRUE
         IN  WithNulls(ReplaceAt(tree, path, Null), paths \ {path})

\* the JSON values of at most n nodes: as the schema trees, with null in the
\* place of any of the strings (a number or a boolean is to pydanticStringify
\* what the string "s" is: no object, no keys, and a `length` that is not 1
\* or an unwrapping that returns the same text)
JsonValuesUpTo(n) ==
    UNION {{WithNulls(tree, paths) :
               paths \in SUBSET {q \in Paths(tree) : NodeAt(tree, q).t = "str"}} :
              tree \in SchemasUpTo(n)}

\* the caller builds the same schema with two keys of one object in the
\* other order
SwapKeys(path, j) ==
    /\ strings = <<>>
    /\ NodeAt(schema, path).t = "obj"
    /\ j < Len(NodeAt(schema, path).kids)
    /\ schema' = ReplaceAt(schema, path,
                           [NodeAt(schema, path) EXCEPT !.keys = Exchanged(@, j),
                                                        !.kids = Exchanged(@, j)])
    /\ schemaOp' = "swapKeys"
    /\ UNCHANGED <<strings, digests>>

\* buildSchemaDigest: pydanticStringify(schema), then the sha256 of the string
BuildSchemaDigest ==
    /\ Len(strings) < MaxCalls
    /\ LET r == pydanticStringifyOf(schema)
       IN  /\ schema' = r.obj
           /\ strings' = Append(strings, r.str)
           /\ digests' = Append(digests, IF r.ok THEN modelDigest(r.str) ELSE r.str)
    /\ schemaOp' = "buildSchemaDigest"

othersOfSchema ==
    <<envVars, dispenserVars, dispatcherVars, callVars, historyVars,
      sampleVars, parseVars, modelVars>>

NextSchema ==
    \/ /\ strings = <<>>
       /\ \E path \in Paths(schema) :
             \E j \in 1..(Len(NodeAt(schema, path).kids) - 1) : SwapKeys(path, j)
       /\ UNCHANGED othersOfSchema
    \/ BuildSchemaDigest /\ UNCHANGED othersOfSchema

-----------------------------------------------------------------------------
(* Model (model.ts): the constructor and buildSchemaDigest on a zod schema *)

\* the keys of the schema object createSchema returns
KeyProperties == <<"p", "r", "o", "p", "e", "r", "t", "i", "e", "s">>
KeyRequired == <<"r", "e", "q", "u", "i", "r", "e", "d">>
KeyDescription == <<"d", "e", "s", "c", "r", "i", "p", "t", "i", "o", "n">>

\* the field names of the message types
FieldCheck == <<"c", "h", "e", "c", "k">>
FieldMessage == <<"m", "e", "s", "s", "a", "g", "e">>
FieldCounter == <<"c", "o", "u", "n", "t", "e", "r">>
MessageFields == {FieldCheck, FieldMessage, FieldCounter, KeyType}

\* the JSON Schema type of each field: z.boolean(), z.string(),
\* z.number().int(), and z.string() for the field named `type`
FieldType(name) ==
    CASE name = FieldCheck -> <<"b", "o", "o", "l", "e", "a", "n">>
      [] name = FieldCounter -> <<"i", "n", "t", "e", "g", "e", "r">>
      [] OTHER -> <<"s", "t", "r", "i", "n", "g">>

\* the lists of at least one and at most n different fields
FieldListsUpTo(n) ==
    UNION {{fs \in [1..m -> MessageFields] : \A a, b \in 1..m : fs[a] = fs[b] => a = b} :
              m \in 1..n}

\* `.describe(...)` / `.openapi({description, title})` of the message type
Descriptions == {Nothing, Some(<<"P", "l", "u", "s", " ", "r", "a", "n", "d", "o", "m", " ", "d", "o", "c", "s", "t", "r", "i", "n", "g">>)}
Titles ==
    {Nothing, Some(<<"S", "u", "p", "e", "r", "I", "m", "p", "o", "r", "t", "a", "n", "t", "C", "h", "e", "c", "k">>)}

\* z.object({...}) with its metadata, and a value that is no zod schema
ZodObject(fields, description, title) == [zod |-> "object", fields |-> fields, description |-> description, title |-> title, value |-> 0]
NotASchema == [zod |-> "none", fields |-> <<>>, description |-> Nothing, title |-> Nothing, value |-> 123]

ZodSchemas ==
    {ZodObject(fields, description, title) :
        fields \in FieldListsUpTo(MaxFields), description \in Descriptions, title \in Titles}

\* what a caller can hand to `new Model(...)`: `123 as any` passes the compiler
ConstructorArguments == ZodSchemas \cup {NotASchema}

\* createSchema(this.schema) of zod-openapi: the JSON Schema object of a
\* z.object, with the metadata the schema carries and no other
createSchema(z) ==
    Obj(<<KeyType, KeyProperties, KeyRequired>>
          \o (IF IsSet(z.description) THEN <<KeyDescription>> ELSE <<>>)
          \o (IF IsSet(z.title) THEN <<KeyTitle>> ELSE <<>>),
        <<Str(<<"o", "b", "j", "e", "c", "t">>),
          Obj(z.fields, [j \in 1..Len(z.fields) |-> Obj(<<KeyType>>, <<Str(FieldType(z.fields[j]))>>)]),
          Arr([j \in 1..Len(z.fields) |-> Str(z.fields[j])])>>
          \o (IF IsSet(z.description) THEN <<Str(Val(z.description))>> ELSE <<>>)
          \o (IF IsSet(z.title) THEN <<Str(Val(z.title))>> ELSE <<>>))

\* createSchema of a value that is no zod schema is not determined by this
\* code: the library throws, or returns a schema without content
createSchemaOutcomes(z) ==
    IF z.zod = "object" THEN {Returned(<<>>, createSchema(z))}
    ELSE {Thrown(Null), Returned(<<>>, Obj(<<>>, <<>>))}

\* lines 40-42: `this.schema = schema`
Construct ==
    /\ model = Nothing
    /\ schemaOp = "new"
    /\ model' = Some(input)
    /\ schemaOp' = "constructor"
    /\ UNCHANGED <<input, schema, strings, digests>>

\* lines 56-72: createSchema, pydanticStringify, sha256
BuildDigest(created) ==
    /\ IsSet(model)
    /\ Len(strings) < MaxCalls
    /\ LET r == IF created.ok THEN pydanticStringifyOf(created.obj) ELSE created
       IN  /\ schema' = r.obj
           /\ strings' = Append(strings, r.str)
           /\ digests' = Append(digests, IF r.ok THEN modelDigest(r.str) ELSE r.str)
    /\ schemaOp' = "buildSchemaDigest"
    /\ UNCHANGED <<input, model>>

othersOfModel ==
    <<envVars, dispenserVars, dispatcherVars, callVars, historyVars,
      sampleVars, parseVars>>

NextModel ==
    \/ Construct /\ UNCHANGED othersOfModel
    \/ /\ IsSet(model)
       /\ \E created \in createSchemaOutcomes(Val(model)) : BuildDigest(created)
       /\ UNCHANGED othersOfModel

-----------------------------------------------------------------------------
(* Specifications *)

\* a newly constructed Envelope with any field values; an empty Dispenser, an
\* empty Dispatcher and no delivery call under way
InitAnyEnvelope ==
    /\ env \in NewEnvelopes
    /\ op = "new"
    /\ verifyResult = "none"
    /\ sets = 0
    /\ _envelopes = <<>>
    /\ resolved = <<>>
    /\ dispenserOp = "new"
    /\ sinks = {}
    /\ deliveries = <<>>
    /\ pc = "idle"
    /\ envelope = CHOOSE e \in OutboundEnvelopes : TRUE
    /\ endpoints = <<>>
    /\ sync = FALSE
    /\ answers = <<>>
    /\ i = 1
    /\ errors = <<>>
    /\ posts = <<>>
    /\ inflight = {}
    /\ response = Nothing
    /\ result = Nothing
    /\ logged = Nothing
    /\ now = 2 * RetentionSeconds * 1000
    /\ ticks = 0
    /\ envelopes = <<>>
    /\ entry = Nothing
    /\ cutoffTime = Nothing
    /\ historyOp = "new"
    /\ items = <<>>
    /\ weights = Nothing
    /\ kArg = 1
    /\ sampled = Nothing
    /\ identifier = <<>>
    /\ parsed = Nothing
    /\ schema = Obj(<<>>, <<>>)
    /\ strings = <<>>
    /\ digests = <<>>
    /\ schemaOp = "new"
    /\ input = NotASchema
    /\ model = Nothing

\* the same with one fixed Envelope
Init ==
    /\ env = CHOOSE e \in NewEnvelopes : TRUE
    /\ op = "new"
    /\ verifyResult = "none"
    /\ sets = 0
    /\ _envelopes = <<>>
    /\ resolved = <<>>
    /\ dispenserOp = "new"
    /\ sinks = {}
    /\ deliveries = <<>>
    /\ pc = "idle"
    /\ envelope = CHOOSE e \in OutboundEnvelopes : TRUE
    /\ endpoints = <<>>
    /\ sync = FALSE
    /\ answers = <<>>
    /\ i = 1
    /\ errors = <<>>
    /\ posts = <<>>
    /\ inflight = {}
    /\ response = Nothing
    /\ result = Nothing
    /\ logged = Nothing
    /\ now = 2 * RetentionSeconds * 1000
    /\ ticks = 0
    /\ envelopes = <<>>
    /\ entry = Nothing
    /\ cutoffTime = Nothing
    /\ historyOp = "new"
    /\ items = <<>>
    /\ weights = Nothing
    /\ kArg = 1
    /\ sampled = Nothing
    /\ identifier = <<>>
    /\ parsed = Nothing
    /\ schema = Obj(<<>>, <<>>)
    /\ strings = <<>>
    /\ digests = <<>>
    /\ schemaOp = "new"
    /\ input = NotASchema
    /\ model = Nothing

\* an empty EnvelopeHistory, the clock at some time of day
InitHistory ==
    /\ env = CHOOSE e \in NewEnvelopes : TRUE
    /\ op = "new"
    /\ verifyResult = "none"
    /\ sets = 0
    /\ _envelopes = <<>>
    /\ resolved = <<>>
    /\ dispenserOp = "new"
    /\ sinks = {}
    /\ deliveries = <<>>
    /\ pc = "idle"
    /\ envelope = CHOOSE e \in OutboundEnvelopes : TRUE
    /\ endpoints = <<>>
    /\ sync = FALSE
    /\ answers = <<>>
    /\ i = 1
    /\ errors = <<>>
    /\ posts = <<>>
    /\ inflight = {}
    /\ response = Nothing
    /\ result = Nothing
    /\ logged = Nothing
    /\ now = 2 * RetentionSeconds * 1000
    /\ ticks = 0
    /\ envelopes = <<>>
    /\ entry = Nothing
    /\ cutoffTime = Nothing
    /\ historyOp = "new"
    /\ items = <<>>
    /\ weights = Nothing
    /\ kArg = 1
    /\ sampled = Nothing
    /\ identifier = <<>>
    /\ parsed = Nothing
    /\ schema = Obj(<<>>, <<>>)
    /\ strings = <<>>
    /\ digests = <<>>
    /\ schemaOp = "new"
    /\ input = NotASchema
    /\ model = Nothing

\* a weightedRandomSample call about to be made, with any arguments
InitSample ==
    /\ env = CHOOSE e \in NewEnvelopes : TRUE
    /\ op = "new"
    /\ verifyResult = "none"
    /\ sets = 0
    /\ _envelopes = <<>>
    /\ resolved = <<>>
    /\ dispenserOp = "new"
    /\ sinks = {}
    /\ deliveries = <<>>
    /\ pc = "idle"
    /\ envelope = CHOOSE e \in OutboundEnvelopes : TRUE
    /\ endpoints = <<>>
    /\ sync = FALSE
    /\ answers = <<>>
    /\ i = 1
    /\ errors = <<>>
    /\ posts = <<>>
    /\ inflight = {}
    /\ response = Nothing
    /\ result = Nothing
    /\ logged = Nothing
    /\ now = 2 * RetentionSeconds * 1000
    /\ ticks = 0
    /\ envelopes = <<>>
    /\ entry = Nothing
    /\ cutoffTime = Nothing
    /\ historyOp = "new"
    /\ items \in ItemLists
    /\ weights \in WeightArguments
    /\ kArg \in SampleSizes
    /\ sampled = Nothing
    /\ identifier = <<>>
    /\ parsed = Nothing
    /\ schema = Obj(<<>>, <<>>)
    /\ strings = <<>>
    /\ digests = <<>>
    /\ schemaOp = "new"
    /\ input = NotASchema
    /\ model = Nothing

\* a parseIdentifier call about to be made, with any identifier
InitParse ==
    /\ env = CHOOSE e \in NewEnvelopes : TRUE
    /\ op = "new"
    /\ verifyResult = "none"
    /\ sets = 0
    /\ _envelopes = <<>>
    /\ resolved = <<>>
    /\ dispenserOp = "new"
    /\ sinks = {}
    /\ deliveries = <<>>
    /\ pc = "idle"
    /\ envelope = CHOOSE e \in OutboundEnvelopes : TRUE
    /\ endpoints = <<>>
    /\ sync = FALSE
    /\ answers = <<>>
    /\ i = 1
    /\ errors = <<>>
    /\ posts = <<>>
    /\ inflight = {}
    /\ response = Nothing
    /\ result = Nothing
    /\ logged = Nothing
    /\ now = 2 * RetentionSeconds * 1000
    /\ ticks = 0
    /\ envelopes = <<>>
    /\ entry = Nothing
    /\ cutoffTime = Nothing
    /\ historyOp = "new"
    /\ items = <<>>
    /\ weights = Nothing
    /\ kArg = 1
    /\ sampled = Nothing
    /\ identifier \in Identifiers
    /\ parsed = Nothing
    /\ schema = Obj(<<>>, <<>>)
    /\ strings = <<>>
    /\ digests = <<>>
    /\ schemaOp = "new"
    /\ input = NotASchema
    /\ model = Nothing

\* a schema tree no digest has been built for yet
InitSchema ==
    /\ env = CHOOSE e \in NewEnvelopes : TRUE
    /\ op = "new"
    /\ verifyResult = "none"
    /\ sets = 0
    /\ _envelopes = <<>>
    /\ resolved = <<>>
    /\ dispenserOp = "new"
    /\ sinks = {}
    /\ deliveries = <<>>
    /\ pc = "idle"
    /\ envelope = CHOOSE e \in OutboundEnvelopes : TRUE
    /\ endpoints = <<>>
    /\ sync = FALSE
    /\ answers = <<>>
    /\ i = 1
    /\ errors = <<>>
    /\ posts = <<>>
    /\ inflight = {}
    /\ response = Nothing
    /\ result = Nothing
    /\ logged = Nothing
    /\ now = 2 * RetentionSeconds * 1000
    /\ ticks = 0
    /\ envelopes = <<>>
    /\ entry = Nothing
    /\ cutoffTime = Nothing
    /\ historyOp = "new"
    /\ items = <<>>
    /\ weights = Nothing
    /\ kArg = 1
    /\ sampled = Nothing
    /\ identifier = <<>>
    /\ parsed = Nothing
    /\ schema \in SchemasUpTo(MaxNodes)
    /\ strings = <<>>
    /\ digests = <<>>
    /\ schemaOp = "new"
    /\ input = NotASchema
    /\ model = Nothing

\* one Envelope: constructed, signed, assigned to, verified
InitJson ==
    /\ env = CHOOSE e \in NewEnvelopes : TRUE
    /\ op = "new"
    /\ verifyResult = "none"
    /\ sets = 0
    /\ _envelopes = <<>>
    /\ resolved = <<>>
    /\ dispenserOp = "new"
    /\ sinks = {}
    /\ deliveries = <<>>
    /\ pc = "idle"
    /\ envelope = CHOOSE e \in OutboundEnvelopes : TRUE
    /\ endpoints = <<>>
    /\ sync = FALSE
    /\ answers = <<>>
    /\ i = 1
    /\ errors = <<>>
    /\ posts = <<>>
    /\ inflight = {}
    /\ response = Nothing
    /\ result = Nothing
    /\ logged = Nothing
    /\ now = 2 * RetentionSeconds * 1000
    /\ ticks = 0
    /\ envelopes = <<>>
    /\ entry = Nothing
    /\ cutoffTime = Nothing
    /\ historyOp = "new"
    /\ items = <<>>
    /\ weights = Nothing
    /\ kArg = 1
    /\ sampled = Nothing
    /\ identifier = <<>>
    /\ parsed = Nothing
    /\ schema \in JsonValuesUpTo(MaxJsonNodes)
    /\ strings = <<>>
    /\ digests = <<>>
    /\ schemaOp = "new"
    /\ input = NotASchema
    /\ model = Nothing

InitModel ==
    /\ env = CHOOSE e \in NewEnvelopes : TRUE
    /\ op = "new"
    /\ verifyResult = "none"
    /\ sets = 0
    /\ _envelopes = <<>>
    /\ resolved = <<>>
    /\ dispenserOp = "new"
    /\ sinks = {}
    /\ deliveries = <<>>
    /\ pc = "idle"
    /\ envelope = CHOOSE e \in OutboundEnvelopes : TRUE
    /\ endpoints = <<>>
    /\ sync = FALSE
    /\ answers = <<>>
    /\ i = 1
    /\ errors = <<>>
    /\ posts = <<>>
    /\ inflight = {}
    /\ response = Nothing
    /\ result = Nothing
    /\ logged = Nothing
    /\ now = 2 * RetentionSeconds * 1000
    /\ ticks = 0
    /\ envelopes = <<>>
    /\ entry = Nothing
    /\ cutoffTime = Nothing
    /\ historyOp = "new"
    /\ items = <<>>
    /\ weights = Nothing
    /\ kArg = 1
    /\ sampled = Nothing
    /\ identifier = <<>>
    /\ parsed = Nothing
    /\ schema = Obj(<<>>, <<>>)
    /\ strings = <<>>
    /\ digests = <<>>
    /\ schemaOp = "new"
    /\ input \in ConstructorArguments
    /\ model = Nothing

SpecEnvelope == InitAnyEnvelope /\ [][NextEnvelope]_vars

\* one Dispenser: envelopes queued, run() called
SpecDispenser == Init /\ [][NextDispenser]_vars

\* one delivery call, the Dispatcher's registrations changing around it
SpecSend == Init /\ [][NextSend]_vars

\* one EnvelopeHistory: entries added and read while the clock advances
SpecHistory == InitHistory /\ [][NextHistory]_vars

\* one weightedRandomSample call
SpecSample == InitSample /\ [][NextSample]_vars

\* one parseIdentifier call
SpecParse == InitParse /\ [][NextParse]_vars

\* one schema tree: written down in any key order, its digest built repeatedly
SpecSchema == InitSchema /\ [][NextSchema]_vars

SpecModel == InitModel /\ [][NextModel]_vars

SpecJson == InitJson /\ [][NextSchema]_vars

-----------------------------------------------------------------------------
(* Claims about the Envelope *)

\* the signature on e was made by e.sender's key over e's current digest
Authentic(e) ==
    /\ IsSet(e.signature)
    /\ Val(e.signature).kind = "sig"
    /\ Val(e.signature).signer = e.sender
    /\ Val(e.signature).digest = _digest(e)

\* C1: a verify() that directly follows sign(id), id's address being the
\* envelope's sender, returns true, whichever optional fields are present.
C1_SignThenVerify ==
    [][(op = "sign" /\ Val(env.signature).signer = env.sender /\ op' = "verify")
          => verifyResult' = "true"]_vars

C1_Witness ==
    /\ op = "verify"
    /\ sets = 0
    /\ verifyResult = "true"
    /\ IsSet(env.payload) /\ IsSet(env.expires) /\ ~IsSet(env.nonce)

\* the seven fields the signature is meant to protect
ProtectedFields ==
    {"sender", "target", "session", "schemaDigest", "payload", "expires", "nonce"}

\* C2: after sign(id), assigning a different value to one of sender, target,
\* session, schemaDigest, payload, expires, nonce (signature untouched) makes
\* verify() fail.
C2_AnyFieldChangeDetected ==
    [][(/\ verify(env) = "true"
        /\ op' = "set"
        /\ \E f \in ProtectedFields : env'[f] # env[f])
          => verify(env') # "true"]_vars

\* the layout the claim states: an optional field contributes iff it is set
LayoutBytes(e) ==
    e.sender \o e.target \o e.session \o e.schemaDigest
      \o (IF IsSet(e.payload) THEN Val(e.payload) ELSE <<>>)
      \o (IF IsSet(e.expires) THEN writeBigUInt64BE(Val(e.expires)) ELSE <<>>)
      \o (IF IsSet(e.nonce) THEN writeBigUInt64BE(Val(e.nonce)) ELSE <<>>)

\* C3: the bytes hashed by _digest are sender, target, session, schemaDigest,
\* then payload, expires (8 bytes big-endian), nonce (8 bytes big-endian), each
\* optional field contributing exactly when it is set.
C3_DigestLayout == _digest(env) = sha256(LayoutBytes(env))

SignatureErrors ==
    {"Error: Envelope signature is missing",
     "Error: Envelope signature does not verify"}

SameButVersion(e) ==
    {[e EXCEPT !.version = v, !.protocolDigest = p] :
        v \in Versions, p \in ProtocolDigests}

\* an assignment to version or protocolDigest
VersionStep ==
    /\ op' = "set"
    /\ \E f \in {"version", "protocolDigest"} : env'[f] # env[f]

\* C28: verify() depends on sender, target, session, schemaDigest, payload,
\* expires, nonce and signature only: envelopes that differ in version or
\* protocolDigest alone get the same result, and an assignment to one of the
\* two after signing leaves the result of verify() as it was.
C28_VersionNotProtected ==
    /\ [](\A e \in SameButVersion(env) : verify(e) = verify(env))
    /\ [][VersionStep => verify(env') = verify(env)]_vars

C28_Witness ==
    /\ op = "verify"
    /\ verifyResult = "true"
    /\ env.version = 2

-----------------------------------------------------------------------------
(* Claims about the Dispenser and the delivery loop *)

\* C5: once run() has returned, the response future of every queued envelope
\* has been resolved exactly once.
C5_RunResolvesEachFutureOnce ==
    dispenserOp = "run" =>
        \A k \in 1..Len(_envelopes) : resolved[_envelopes[k].future] = 1

\* C6: the positions POSTed to are 1, 2, ..., k in list order, none twice; at
\* most one POST is in flight; and a POST is issued only when every earlier
\* attempt has completed without the call returning.
C6_SequentialAttempts ==
    /\ [](/\ posts = [k \in 1..Len(posts) |-> k]
          /\ Len(posts) <= Len(endpoints)
          /\ Cardinality(inflight) <= 1
          /\ inflight \subseteq {Len(posts)})
    /\ [][Len(posts') > Len(posts) =>
            /\ inflight = {}
            /\ result = Nothing
            /\ posts' = Append(posts, Len(posts) + 1)
            /\ ~sync => \A k \in 1..Len(posts) : answers[k] # "ok"]_vars

C6_Witness ==
    /\ pc = "await"
    /\ posts = <<1, 2>>
    /\ inflight = {2}
    /\ endpoints[1] = endpoints[2]

\* the first list position whose endpoint answers with success
FirstOk == CHOOSE k \in 1..Len(answers) :
              /\ answers[k] = "ok"
              /\ \A j \in 1..(k - 1) : answers[j] # "ok"

\* C7: non-sync, some endpoint of the list answers with success: the call
\* resolves DELIVERED with the first such endpoint, destination
\* envelope.target and session envelope.session, and POSTs to no later one.
C7_FirstSuccessDelivered ==
    (~sync /\ \E k \in 1..Len(answers) : answers[k] = "ok") =>
        /\ \A k \in 1..Len(posts) : posts[k] <= FirstOk
        /\ pc = "done" =>
              /\ Val(result).type = "MsgStatus"
              /\ Val(result).status = DELIVERED
              /\ Val(result).endpoint = endpoints[FirstOk]
              /\ Val(result).destination = envelope.target
              /\ Val(result).session = envelope.session
              /\ posts = [k \in 1..FirstOk |-> k]

C7_Witness ==
    /\ pc = "done"
    /\ ~sync
    /\ Len(endpoints) = 2
    /\ endpoints[1] # endpoints[2]
    /\ answers = <<"not ok", "ok">>
    /\ Val(result).endpoint = endpoints[2]

IsFailed == IsSet(result) /\ Val(result).type = "MsgStatus" /\ Val(result).status = FAILED

\* a message text mentions an error when the error is one of its fragments
Mentions(text, error) == \E j \in 1..Len(text) : text[j] = error

\* C8 as stated: the detail of a FAILED outcome mentions the error recorded
\* for each endpoint tried.
C8_DetailAggregatesErrors ==
    IsFailed => \A k \in 1..Len(errors) : Mentions(Val(result).detail, errors[k])

\* C8 as amended: the detail of a FAILED outcome is the fixed text "Message
\* delivery failed"; the recorded errors are aggregated in the log message
\* only, one per endpoint tried when the delivery is not sync.
C8_ErrorsAggregatedInLog ==
    IsFailed =>
        /\ Val(result).detail = <<"Message delivery failed">>
        /\ logged = Some(errors)
        /\ Len(posts) = Len(endpoints)
        /\ ~sync => Len(errors) = Len(endpoints)

C8_Witness ==
    /\ IsFailed
    /\ Len(endpoints) = 2
    /\ errors = <<"response text", "Failed to send message">>

\* C9: a sync response whose signature does not verify (verify returns false
\* or throws) reaches no sink, is not returned, and the loop moves on to the
\* next list position.
C9_UnverifiedResponseSkipped ==
    [][(/\ pc = "await"
        /\ IsSet(response')
        /\ IsSet(Val(response').signature)
        /\ verify(Val(response')) # "true")
          => /\ deliveries' = deliveries
             /\ result' = Nothing
             /\ pc' = "loop"
             /\ i' = i + 1]_vars

C9_Witness ==
    /\ pc = "loop"
    /\ i = 2
    /\ Len(endpoints) = 2
    /\ sinks # {}
    /\ IsSet(response)
    /\ IsSet(Val(response).signature)
    /\ verify(Val(response)) = "false"
    /\ deliveries = <<>>

\* C10: no POST is issued for an envelope whose target has a sink registered:
\* such an envelope is handed to the sink and the outcome is DELIVERED,
\* "Message dispatched locally".
C10_LocalSinkBypassesNetwork ==
    [][Len(posts') > Len(posts) => ~contains(envelope.target)]_vars

\* C11: every POST carries a signed envelope: no envelope whose signature is
\* absent is sent to an endpoint.
C11_OnlySignedPosted ==
    [][Len(posts') > Len(posts) => IsSet(envelope.signature)]_vars

\* C12: when an accepted sync response is handled with no sink registered,
\* the call returns that response Envelope unchanged and no sink is invoked;
\* with a sink registered the Envelope is never the result, and what is
\* returned is a MsgStatus.
C12_NoSinksReturnsEnvelope ==
    [][(/\ pc = "await"
        /\ IsSet(response')
        /\ IsSet(Val(response').signature) => verify(Val(response')) = "true")
          => /\ sinks = {} =>
                   /\ pc' = "done"
                   /\ result' = Some([type |-> "Envelope", env |-> Val(response')])
                   /\ deliveries' = deliveries
             /\ sinks # {} =>
                   /\ pc' = "done" => Val(result').type = "MsgStatus"
                   /\ pc' # "done" => result' = Nothing]_vars

C12_Witness ==
    /\ pc = "done"
    /\ Val(result).type = "Envelope"
    /\ Val(result).env = Val(response)
    /\ IsSet(Val(response).payload)
    /\ deliveries = <<>>

\* the steps of a sendExchangeEnvelope call under way
SendStep ==
    \/ Post
    \/ FetchRejects
    \/ \E textRead \in BOOLEAN : NotOk(textRead)
    \/ OkNotSync
    \/ OkSyncUnparsable
    \/ \E r \in ResponseEnvelopes : OkSyncUnverified(r)
    \/ \E r \in ResponseEnvelopes : OkSyncNoSinks(r)
    \/ \E r \in ResponseEnvelopes, sinkThrows \in BOOLEAN : OkSyncDispatched(r, sinkThrows)
    \/ \E r \in ResponseEnvelopes : OkSyncNoSink(r)
    \/ Exhausted

\* the number of steps the call can still take
StepsLeft == 2 * (Len(endpoints) + 1 - i) + (IF pc = "loop" THEN 1 ELSE 0)

\* a value sendExchangeEnvelope may resolve with
IsOutcome(value) ==
    \/ value.type = "Envelope"
    \/ value.type = "MsgStatus" /\ value.status \in {DELIVERED, FAILED}

\* a step of a running call stays inside the call, moves it nearer to its end,
\* and ends it only with an outcome
StepInsideCall ==
    pc \in {"loop", "await"} =>
        /\ pc' \in {"loop", "await", "done"}
        /\ (pc' # pc /\ pc' # "done") => StepsLeft' < StepsLeft
        /\ pc' = "done" => (IsSet(result') /\ IsOutcome(Val(result')))

\* C13: a sendExchangeEnvelope call never throws and always resolves: while
\* it runs it can always take a step, whatever error, status, response or
\* sink exception it meets; each step brings it nearer to its end; and it
\* ends with a MsgStatus (DELIVERED or FAILED) or a response Envelope.
C13_NeverThrows ==
    /\ [](pc \in {"loop", "await"} => (StepsLeft >= 0 /\ ENABLED SendStep))
    /\ [][StepInsideCall]_vars

C13_Witness ==
    /\ IsFailed
    /\ sync
    /\ Len(endpoints) = 2
    /\ Len(deliveries) = 2
    /\ errors = <<"Failed to send message", "Failed to send message">>

\* a sendExchangeEnvelope call with no endpoints is under way or has returned
CalledWithoutEndpoints ==
    endpoints = <<>> /\ (pc \in {"loop", "await"} \/ IsSet(logged))

\* C24: a sendExchangeEnvelope call with an empty endpoint list, sync or not,
\* makes no POST and returns FAILED with the target and the session of the
\* envelope.
C24_EmptyListFails ==
    CalledWithoutEndpoints =>
        /\ posts = <<>>
        /\ pc = "loop" => ENABLED Exhausted
        /\ pc # "loop" =>
              /\ pc = "done"
              /\ IsSet(result)
              /\ Val(result).type = "MsgStatus"
              /\ Val(result).status = FAILED
              /\ Val(result).destination = envelope.target
              /\ Val(result).session = envelope.session

C24_Witness ==
    /\ CalledWithoutEndpoints
    /\ sync
    /\ pc = "done"
    /\ Val(result).status = FAILED

\* C25: in a sync delivery, once an endpoint has returned a response that
\* was accepted, no further endpoint is POSTed to, whatever the dispatch of
\* the response to the local Dispatcher does.
C25_NoPostAfterAcceptedResponse ==
    [][sync /\ IsSet(response) /\ Accepted(Val(response)) => posts' = posts]_vars

\* the step hands the sync response to a sink or returns it to the caller
ResponseDispatched ==
    /\ pc = "await"
    /\ \/ deliveries' # deliveries
       \/ IsSet(result') /\ Val(result').type = "Envelope"

\* the response was checked: it is signed and verify() returned true
Verified(r) == IsSet(r.signature) /\ verify(r) = "true"

\* C26 as claimed: a sync response reaches a sink or the caller only if it
\* is signed and its signature verified against its sender.
C26_OnlyVerifiedDispatched ==
    [][ResponseDispatched => IsSet(response') /\ Verified(Val(response'))]_vars

\* C26: a sync response reaches a sink or the caller only if it is unsigned
\* or its signature verified against its sender; a signed response whose
\* verification fails or throws is never dispatched.
C26_NoFailedVerificationDispatched ==
    [][ResponseDispatched =>
          /\ IsSet(response')
          /\ ~IsSet(Val(response').signature) \/ Verified(Val(response'))]_vars

C26_Witness ==
    /\ pc = "done"
    /\ IsSet(response)
    /\ ~IsSet(Val(response).signature)
    /\ deliveries # <<>>
    /\ result = Some(SyncStatus(Val(response)))

\* a sendExchangeEnvelope call has returned a MsgStatus
StatusReturned ==
    /\ pc = "done"
    /\ posts # <<>> \/ IsSet(logged)
    /\ Val(result).type = "MsgStatus"

\* C27: every MsgStatus sendExchangeEnvelope returns for an envelope has the
\* target and the session of that envelope, and a non-empty endpoint exactly
\* when the status is DELIVERED.
C27_StatusNamesEnvelope ==
    StatusReturned =>
        /\ Val(result).destination = envelope.target
        /\ Val(result).session = envelope.session
        /\ Val(result).endpoint # "" <=> Val(result).status = DELIVERED

-----------------------------------------------------------------------------
(* Claims about the EnvelopeHistory *)

\* entry e is older than 24 hours when the clock shows t
OlderThanADay(e, t) == e.timestamp < (t \div 1000) - 86400

\* C14: right after addEntry(entry) returns, the history holds no entry older
\* than 24 hours: the entry just added is dropped when it is that old and is
\* the last of the list otherwise, also when it lies exactly at the cutoff.
C14_FreshAfterAddEntry ==
    historyOp = "addEntry" =>
        /\ \A j \in 1..Len(envelopes) : ~OlderThanADay(envelopes[j], now)
        /\ OlderThanADay(Val(entry), now) =>
              \A j \in 1..Len(envelopes) : envelopes[j] # Val(entry)
        /\ ~OlderThanADay(Val(entry), now) =>
              /\ envelopes # <<>>
              /\ envelopes[Len(envelopes)] = Val(entry)

C14_Witness ==
    /\ historyOp = "addEntry"
    /\ Val(entry).timestamp = (now \div 1000) - 86400
    /\ Len(envelopes) = 2
    /\ envelopes[2] = Val(entry)
    /\ ticks > 0

\* C15 as stated: in every reachable state of the history, whether the clock
\* has advanced, an entry was added or the history was read, no retained
\* entry is older than 24 hours.
C15_NeverOlderThanADay ==
    \A j \in 1..Len(envelopes) : ~OlderThanADay(envelopes[j], now)

\* what a step does to the retained entries
RetentionStep ==
    /\ historyOp' = "addEntry" =>
          \A j \in 1..Len(envelopes') : ~OlderThanADay(envelopes'[j], now')
    /\ historyOp' \in {"tick", "read"} => envelopes' = envelopes

\* C15 as amended: entries older than 24 hours are removed by addEntry only:
\* no retained entry is older than 24 hours when an addEntry returns, while
\* an advance of the clock or a read of the history leaves the retained
\* entries as they are, however old they have become.
C15_PrunedOnInsertOnly == [][RetentionStep]_vars

C15_Witness ==
    /\ historyOp = "read"
    /\ envelopes # <<>>
    /\ \A j \in 1..Len(envelopes) : OlderThanADay(envelopes[j], now)

-----------------------------------------------------------------------------
(* Claims about the Resolver *)

\* how many times v occurs in list
Count(list, v) == Cardinality({j \in 1..Len(list) : list[j] = v})

\* the sample has min(k, items.length) elements, taken from distinct
\* positions of items
ProperSample ==
    /\ Len(Val(sampled)) = (IF kArg < Len(items) THEN kArg ELSE Len(items))
    /\ \A j \in 1..Len(Val(sampled)) :
          /\ Val(sampled)[j] \in ItemValues
          /\ Count(Val(sampled), Val(sampled)[j]) <= Count(items, Val(sampled)[j])

\* C16 as stated: for every items, every weights argument (undefined or any
\* list of weights) and every k, weightedRandomSample returns exactly
\* min(k, items.length) elements, each from items, no position taken twice.
C16_SampleOfAnyWeights == IsSet(sampled) => ProperSample

\* C16 as amended: for every items, every k, and every weights argument that
\* is undefined or a list with exactly one weight per item,
\* weightedRandomSample returns exactly min(k, items.length) elements, each
\* from items, no position taken twice.
C16_SampleOfMatchingWeights ==
    (IsSet(sampled) /\ (IsSet(weights) => Len(Val(weights)) = Len(items)))
        => ProperSample

C16_Witness ==
    /\ IsSet(sampled)
    /\ IsSet(weights)
    /\ Val(weights) = <<0, 1, 1>>
    /\ items = <<"a", "b", "a">>
    /\ kArg = 2
    /\ Val(sampled) = <<"a", "b">>

\* the text of str before its first "://", or "" when it has none
TextBeforeScheme(str) ==
    IF \E p \in 1..(Len(str) - 2) : SubSeq(str, p, p + 2) = <<":", "/", "/">>
    THEN SubSeq(str, 1, (CHOOSE p \in 1..(Len(str) - 2) :
                            /\ SubSeq(str, p, p + 2) = <<":", "/", "/">>
                            /\ \A q \in 1..(p - 1) :
                                  SubSeq(str, q, q + 2) # <<":", "/", "/">>) - 1)
    ELSE <<>>

\* the texts found inside str
Substrings(str) ==
    {SubSeq(str, a, b) : a \in 1..(Len(str) + 1), b \in 0..Len(str)}

\* str is the second piece of whole: whole is start, sep, str, and then
\* either nothing or sep and more; neither start nor str holds sep
SecondPiece(whole, sep, str) ==
    /\ ~includes(str, sep)
    /\ \E a \in 0..Len(whole) :
          /\ ~includes(SubSeq(whole, 1, a), sep)
          /\ startsWith(SubSeq(whole, a + 1, Len(whole)), sep \o str)
          /\ LET rest == SubSeq(whole, a + Len(sep) + Len(str) + 1, Len(whole))
             IN  rest = <<>> \/ startsWith(rest, sep)

\* str is what is left of whole after the split at sep, if whole holds sep
Remains(whole, sep, str) ==
    IF includes(whole, sep) THEN SecondPiece(whole, sep, str) ELSE str = whole

\* an agent address or a user address of the scaled-down Config
AcceptedAddress(str) ==
    \/ str # <<>> /\ str[1] = "u"
    \/ Len(str) = 2 /\ str[1] = "g"

\* the remainder is returned as the address when it is a valid address and
\* as the name, with address "", when it is not
RemainderClassified(remainder) ==
    /\ ~AcceptedAddress(remainder) =>
          (Val(parsed)[2] = remainder /\ Val(parsed)[3] = <<>>)
    /\ AcceptedAddress(remainder) => Val(parsed)[3] = remainder
    /\ remainder = <<>> => (Val(parsed)[2] = <<>> /\ Val(parsed)[3] = <<>>)

\* C17: parseIdentifier fails on no identifier and returns (prefix, name,
\* address) where prefix is the text before "://" (or ""), address is "" or
\* a valid address, a remainder of the prefix and name splits that is no
\* valid address is returned as the name with address "", and an empty
\* remainder gives name "" and address "".
C17_ParseIdentifier ==
    IsSet(parsed) =>
        /\ Len(Val(parsed)) = 3
        /\ Val(parsed)[1] = TextBeforeScheme(identifier)
        /\ Val(parsed)[3] = <<>> \/ AcceptedAddress(Val(parsed)[3])
        /\ \A mid \in Substrings(identifier) :
              Remains(identifier, <<":", "/", "/">>, mid) =>
                  \A remainder \in Substrings(mid) :
                      Remains(mid, <<"/">>, remainder) =>
                          RemainderClassified(remainder)

C17_Witness ==
    /\ IsSet(parsed)
    /\ identifier = <<"g", ":", "/", "/", "u", "/", "g">>
    /\ Val(parsed) = <<<<"g">>, <<"g">>, <<>>>>

-----------------------------------------------------------------------------
(* Claims about the schema digest *)

\* the canonical string of a tree
CanonicalString(tree) == pydanticStringifyOf(tree).str

\* the canonical string of an array lists those of its elements in the
\* order of the array
ElementsInOrder(node) ==
    CanonicalString(node) =
        <<"[">> \o join([j \in 1..Len(node.kids) |-> CanonicalString(node.kids[j])],
                        <<",", " ">>) \o <<"]">>

\* C18: writing the keys of any object of the schema, at any depth, in
\* another order leaves the canonical string, and so the digest, as it was;
\* the elements of every array appear in the canonical string in the order
\* they have in the array.
C18_KeyOrderIrrelevant ==
    /\ [](\A path \in Paths(schema) :
            NodeAt(schema, path).t = "arr" => ElementsInOrder(NodeAt(schema, path)))
    /\ [][schemaOp' = "swapKeys" =>
            /\ CanonicalString(schema') = CanonicalString(schema)
            /\ modelDigest(CanonicalString(schema')) = modelDigest(CanonicalString(schema))]_vars

C18_Witness ==
    /\ schemaOp = "swapKeys"
    /\ schema.t = "obj"
    /\ schema.keys = <<KeySnake>>
    /\ schema.kids[1].t = "obj"
    /\ schema.kids[1].keys = <<KeyType, KeySnake>>

\* C19: a second buildSchemaDigest on the schema as the first call left it
\* returns the canonical string and the digest the first call returned.
C19_SecondBuildSame ==
    \A a, b \in 1..Len(strings) : strings[a] = strings[b] /\ digests[a] = digests[b]

C19_Witness ==
    /\ Len(strings) = 2
    /\ schema.t = "obj"
    /\ schema.keys = <<KeySnake>>
    /\ schema.kids[1].t = "obj"
    /\ schema.kids[1].keys = <<KeyType, KeyTitle>>
    /\ schema.kids[1].kids[2] = Str(<<"A", " ", "B">>)

\* C20: a buildSchemaDigest call, and the pydanticStringify call in it,
\* leaves the schema tree as it was given: no key of any node is added,
\* removed or altered.
C20_SchemaUnchanged ==
    [][schemaOp' = "buildSchemaDigest" => schema' = schema]_vars

\* the title the canonical form gives to the value of each key of the model
TitleFor(key) ==
    CASE key = KeySnake -> <<"A", " ", "B">>
      [] key = KeyType -> <<"T", "y", "p", "e">>
      [] key = KeyTitle -> <<"T", "i", "t", "l", "e">>

\* the value of a key as the canonical form has to show it: with the title
\* of its key when it has a `type` and no `title`, as it is otherwise
Titled(key, value) ==
    IF hasKey(value, KeyType) /\ ~hasKey(value, KeyTitle)
    THEN Obj(Append(value.keys, KeyTitle), Append(value.kids, Str(TitleFor(key))))
    ELSE value

\* the canonical string shows every object that is the value of a key and
\* has a `type` as Titled says
TitlesEmitted(tree, text) ==
    \A path \in Paths(tree) :
        LET parent == NodeAt(tree, path)
        IN  parent.t = "obj" =>
              \A j \in 1..Len(parent.kids) :
                  hasKey(parent.kids[j], KeyType) =>
                      includes(text, <<"\"">> \o parent.keys[j] \o <<"\"", ":", " ">>
                                       \o CanonicalString(Titled(parent.keys[j], parent.kids[j])))

\* C21: in the canonical string, every object with a `type` key and no
\* `title` key that is the value of a key K has the title made of the words
\* of K between '_', each capitalized, joined by single spaces; an object
\* that has a title keeps it.
C21_DefaultTitle ==
    [][schemaOp' = "buildSchemaDigest" /\ pydanticStringifyOf(schema).ok
         => TitlesEmitted(schema, strings'[Len(strings')])]_vars

C21_Witness ==
    /\ schemaOp = "buildSchemaDigest"
    /\ Len(strings) = 1
    /\ strings[1] = <<"{", "\"", "a", "_", "b", "\"", ":", " ", "{",
                      "\"", "t", "i", "t", "l", "e", "\"", ":", " ", "\"", "A", " ", "B", "\"", ",", " ",
                      "\"", "t", "y", "p", "e", "\"", ":", " ", "\"", "s", "\"", "}", "}">>

\* C29: pydanticStringify returns a string for every JSON value, also for
\* an object that has a key whose value is null or a primitive: it never
\* throws.
C29_NeverThrows ==
    [][schemaOp' = "buildSchemaDigest" => pydanticStringifyOf(schema).ok]_vars

-----------------------------------------------------------------------------
(* Claims about the Model *)

\* the canonical JSON the reference implementation hashes for the reference
\* schema; its sha256 is
\* 21e34819ee8106722968c39fdafc104bab0866f1c73c71fd4d2475be285605e9
ReferenceCanonical ==
    <<"{", "\"", "d", "e", "s", "c", "r", "i", "p", "t", "i", "o", "n", "\"",
      ":", " ", "\"", "P", "l", "u", "s", " ", "r", "a", "n", "d", "o", "m",
      " ", "d", "o", "c", "s", "t", "r", "i", "n", "g", "\"", ",", " ", "\"",
      "p", "r", "o", "p", "e", "r", "t", "i", "e", "s", "\"", ":", " ", "{",
      "\"", "c", "h", "e", "c", "k", "\"", ":", " ", "{", "\"", "t", "i",
      "t", "l", "e", "\"", ":", " ", "\"", "C", "h", "e", "c", "k", "\"",
      ",", " ", "\"", "t", "y", "p", "e", "\"", ":", " ", "\"", "b", "o",
      "o", "l", "e", "a", "n", "\"", "}", ",", " ", "\"", "c", "o", "u", "n",
      "t", "e", "r", "\"", ":", " ", "{", "\"", "t", "i", "t", "l", "e",
      "\"", ":", " ", "\"", "C", "o", "u", "n", "t", "e", "r", "\"", ",",
      " ", "\"", "t", "y", "p", "e", "\"", ":", " ", "\"", "i", "n", "t",
      "e", "g", "e", "r", "\"", "}", ",", " ", "\"", "m", "e", "s", "s", "a",
      "g", "e", "\"", ":", " ", "{", "\"", "t", "i", "t", "l", "e", "\"",
      ":", " ", "\"", "M", "e", "s", "s", "a", "g", "e", "\"", ",", " ",
      "\"", "t", "y", "p", "e", "\"", ":", " ", "\"", "s", "t", "r", "i",
      "n", "g", "\"", "}", "}", ",", " ", "\"", "r", "e", "q", "u", "i", "r",
      "e", "d", "\"", ":", " ", "[", "\"", "c", "h", "e", "c", "k", "\"",
      ",", " ", "\"", "m", "e", "s", "s", "a", "g", "e", "\"", ",", " ",
      "\"", "c", "o", "u", "n", "t", "e", "r", "\"", "]", ",", " ", "\"",
      "t", "i", "t", "l", "e", "\"", ":", " ", "\"", "S", "u", "p", "e", "r",
      "I", "m", "p", "o", "r", "t", "a", "n", "t", "C", "h", "e", "c", "k",
      "\"", ",", " ", "\"", "t", "y", "p", "e", "\"", ":", " ", "\"", "o",
      "b", "j", "e", "c", "t", "\"", "}">>

\* the reference schema: {check: boolean, message: string, counter: integer}
\* described as "Plus random docstring"
ReferenceSchema ==
    CHOOSE z \in ZodSchemas :
        /\ z.fields = <<FieldCheck, FieldMessage, FieldCounter>>
        /\ IsSet(z.description)
        /\ ~IsSet(z.title)

\* C22: for the reference schema, buildSchemaDigest returns the digest of
\* the reference implementation: the sha256 of its canonical JSON.
C22_ReferenceDigest ==
    input = ReferenceSchema =>
        \A n \in 1..Len(digests) : digests[n] = modelDigest(ReferenceCanonical)

\* C23: a value that is no zod schema is rejected by the constructor: no
\* Model is made of it and no digest is built for it.
C23_NonSchemaRejected ==
    input = NotASchema => model = Nothing /\ digests = <<>>

\* the `properties` member of the canonical string of a message type: one
\* member for each field, in the order of the names, and no other
PropertiesText(z) ==
    LET names == sortedKeys(z.fields)
        member(name) ==
            <<"\"">> \o name \o <<"\"", ":", " ", "{", "\"">> \o KeyTitle
              \o <<"\"", ":", " ", "\"">> \o capitalize(name) \o <<"\"", ",", " ", "\"">>
              \o KeyType \o <<"\"", ":", " ", "\"">> \o FieldType(name) \o <<"\"", "}">>
    IN  <<"\"">> \o KeyProperties \o <<"\"", ":", " ", "{">>
          \o join([j \in 1..Len(names) |-> member(names[j])], <<",", " ">>) \o <<"}">>

\* C30: the field names under `properties` in the canonical string are
\* those of the message type: no title is put into a `properties` map, also
\* not when a field is named `type`.
C30_PropertiesKeepFieldNames ==
    input.zod = "object" =>
        \A n \in 1..Len(strings) : includes(strings[n], PropertiesText(input))

====
